---- MODULE Spec2Model ----
(***************************************************************************)
(* pale-signal: the Entry Store (data_store.py) and the Analytics Engine   *)
(* (analytics.py) as a state machine.                                      *)
(*                                                                         *)
(* Python values are modelled with their run-time type, because the code   *)
(* coerces (float(), int()) where it validates and does not where it       *)
(* computes:                                                               *)
(*   a numeric field is [k, i, f]: k the Python type ("int", "float",      *)
(*   "nan" for float('nan'), "intstr" for a str like "5", "decstr" for a   *)
(*   str like "7.5", "badstr" for a str like "abc", "null" for None) and   *)
(*   i + f/10 the number it denotes (i = floor, f the tenths digit);       *)
(*   a date is [k, s]: s the text as a sequence of characters;             *)
(*   a timestamp is [k, text].                                             *)
(***************************************************************************)
EXTENDS Integers, Sequences, FiniteSets, TLC

VARIABLES file, call, ret, pc, buf

vars == <<file, call, ret, pc, buf>>

\* ------------------------------------------------------------ characters

Digits == {"0", "1", "2", "3", "4", "5", "6", "7", "8", "9"}

DigitVal(c) ==
    CASE c = "0" -> 0 [] c = "1" -> 1 [] c = "2" -> 2 [] c = "3" -> 3
      [] c = "4" -> 4 [] c = "5" -> 5 [] c = "6" -> 6 [] c = "7" -> 7
      [] c = "8" -> 8 [] c = "9" -> 9 [] OTHER -> 0

\* Code point of a character: Python compares str values code point by code point.
Ord(c) ==
    CASE c = " " -> 32 [] c = "-" -> 45 [] c = "/" -> 47
      [] c \in Digits -> 48 + DigitVal(c)
      [] OTHER -> 120

\* str < str of Python: lexicographic on code points, a proper prefix is smaller.
RECURSIVE StrLess(_, _)
StrLess(a, b) ==
    IF b = <<>> THEN FALSE
    ELSE IF a = <<>> THEN TRUE
    ELSE IF Ord(Head(a)) # Ord(Head(b)) THEN Ord(Head(a)) < Ord(Head(b))
    ELSE StrLess(Tail(a), Tail(b))

\* ------------------------------------------------------------ numbers

Num(k, i, f) == [k |-> k, i |-> i, f |-> f]

\* float(x): ValueError for a non-numeric str, TypeError for None.
FloatOk(v) == v.k \in {"int", "float", "nan", "intstr", "decstr"}

\* int(x): truncates a float towards zero; ValueError for NaN and for a str that
\* is not an integer literal ("7.5", "abc"), TypeError for None.
IntOk(v) == v.k \in {"int", "float", "intstr"}

IntOf(v) == IF v.i >= 0 \/ v.f = 0 THEN v.i ELSE v.i + 1

\* x < n and x > n for a converted number x and an integer n; every comparison
\* with NaN is False.
NumLess(v, n) == v.k # "nan" /\ v.i < n

NumGreater(v, n) == v.k # "nan" /\ (v.i > n \/ (v.i = n /\ v.f > 0))

\* ------------------------------------------------------------ dates

IsDigits(s) == \A j \in 1..Len(s) : s[j] \in Digits

Val2(a, b) == 10 * DigitVal(a) + DigitVal(b)

\* %m of strptime: 1[0-2]|0[1-9]|[1-9]
Month2(a, b) ==
    \/ a = "1" /\ b \in {"0", "1", "2"}
    \/ a = "0" /\ b \in Digits \ {"0"}

\* %d of strptime: 3[0-1]|[1-2]\d|0[1-9]|[1-9]| [1-9]
Day2(a, b) ==
    \/ a = "3" /\ b \in {"0", "1"}
    \/ a \in {"1", "2"} /\ b \in Digits
    \/ a = "0" /\ b \in Digits \ {"0"}

IsLeap(y) == (y % 4 = 0 /\ y % 100 # 0) \/ y % 400 = 0

DaysInMonth(y, m) ==
    IF m = 2 THEN (IF IsLeap(y) THEN 29 ELSE 28)
    ELSE IF m \in {4, 6, 9, 11} THEN 30 ELSE 31

NoDate == [ok |-> FALSE, y |-> 0, m |-> 0, d |-> 0]

\* The day directive on the rest of the text, which it must use up.
ParseDay(r, y, m) ==
    LET two == Len(r) >= 2 /\ Day2(r[1], r[2])
        one == Len(r) >= 1 /\ r[1] \in Digits \ {"0"}
        spc == Len(r) >= 2 /\ r[1] = " " /\ r[2] \in Digits \ {"0"}
        d   == IF two THEN Val2(r[1], r[2])
               ELSE IF one THEN DigitVal(r[1])
               ELSE IF spc THEN DigitVal(r[2]) ELSE 0
        used == IF two THEN 2 ELSE IF one THEN 1 ELSE IF spc THEN 2 ELSE 0
    IN  IF used = 0 \/ used # Len(r) \/ d > DaysInMonth(y, m) THEN NoDate
        ELSE [ok |-> TRUE, y |-> y, m |-> m, d |-> d]

\* datetime.strptime(s, "%Y-%m-%d"): ok = FALSE is its ValueError.
strptime(s) ==
    IF Len(s) < 8 \/ ~IsDigits(SubSeq(s, 1, 4)) \/ s[5] # "-" THEN NoDate
    ELSE
      LET y == 1000 * DigitVal(s[1]) + 100 * DigitVal(s[2]) + Val2(s[3], s[4])
      IN  IF Month2(s[6], s[7]) /\ s[8] = "-"
            THEN ParseDay(SubSeq(s, 9, Len(s)), y, Val2(s[6], s[7]))
          ELSE IF s[6] \in Digits \ {"0"} /\ s[7] = "-"
            THEN ParseDay(SubSeq(s, 8, Len(s)), y, DigitVal(s[6]))
          ELSE NoDate

\* The calendar day a date text denotes, as one number that orders days.
DayNumber(s) == LET p == strptime(s) IN (p.y * 12 + (p.m - 1)) * 31 + (p.d - 1)

\* ------------------------------------------------------------ timestamps

IsoTexts == {"2024-01-05T08:30:00", "2024-01-10T21:15:42.123456", "2024-01-05"}

\* datetime.fromisoformat(x): ok = FALSE is its ValueError (a str that is not
\* ISO text) or its TypeError (not a str).
fromisoformat(t) == t.k = "str" /\ t.text \in IsoTexts

\* ------------------------------------------------------------ entries

required_fields == <<"date", "sleep_hours", "focus", "mood", "work_hours", "social", "timestamp">>

valid_social == <<"none", "online", "casual", "meaningful", "deep">>

Range(q) == {q[j] : j \in 1..Len(q)}

Str(s) == [k |-> "str", s |-> s]

Txt(t) == [k |-> "str", text |-> t]

Entry(pr, d, sl, fo, mo, wo, so, ts) ==
    [present |-> pr, date |-> d, sleep_hours |-> sl, focus |-> fo, mood |-> mo,
     work_hours |-> wo, social |-> so, timestamp |-> ts]

\* What an operation gives back: ok/err are the (success, error_message) pair,
\* raised = TRUE is an exception that leaves the function, entries the list returned.
Ret(ok, raised, err, es) == [ok |-> ok, raised |-> raised, err |-> err, entries |-> es]

Success == Ret(TRUE, FALSE, "", <<>>)

Failure(msg) == Ret(FALSE, FALSE, msg, <<>>)

Raised(exc) == Ret(FALSE, TRUE, exc, <<>>)

MissingMsg(fld) ==
    CASE fld = "date" -> "Missing required field: date"
      [] fld = "sleep_hours" -> "Missing required field: sleep_hours"
      [] fld = "focus" -> "Missing required field: focus"
      [] fld = "mood" -> "Missing required field: mood"
      [] fld = "work_hours" -> "Missing required field: work_hours"
      [] fld = "social" -> "Missing required field: social"
      [] OTHER -> "Missing required field: timestamp"

\* The loop over required_fields: the first field, in list order, not in entry.
FirstMissing(e) ==
    LET js == {j \in 1..Len(required_fields) : required_fields[j] \notin e.present}
    IN  required_fields[CHOOSE j \in js : \A l \in js : j <= l]

\* The try block of validate_entry: conversions and range checks in source
\* order; the first conversion that raises ends it with "Invalid data type".
CheckRanges(e) ==
    IF ~FloatOk(e.sleep_hours) THEN Failure("Invalid data type")
    ELSE IF NumLess(e.sleep_hours, 0) \/ NumGreater(e.sleep_hours, 24)
      THEN Failure("sleep_hours must be between 0 and 24")
    ELSE IF ~IntOk(e.focus) THEN Failure("Invalid data type")
    ELSE IF IntOf(e.focus) < 1 \/ IntOf(e.focus) > 10
      THEN Failure("focus must be between 1 and 10")
    ELSE IF ~IntOk(e.mood) THEN Failure("Invalid data type")
    ELSE IF IntOf(e.mood) < 1 \/ IntOf(e.mood) > 10
      THEN Failure("mood must be between 1 and 10")
    ELSE IF ~FloatOk(e.work_hours) THEN Failure("Invalid data type")
    ELSE IF NumLess(e.work_hours, 0) \/ NumGreater(e.work_hours, 24)
      THEN Failure("work_hours must be between 0 and 24")
    ELSE IF e.social \notin Range(valid_social)
      THEN Failure("social must be one of: none, online, casual, meaningful, deep")
    ELSE Success

validate_entry(e) ==
    IF Range(required_fields) \ e.present # {} THEN Failure(MissingMsg(FirstMissing(e)))
    ELSE IF e.date.k # "str" THEN Raised("TypeError")
    ELSE IF ~strptime(e.date.s).ok THEN Failure("Date must be in YYYY-MM-DD format")
    ELSE IF ~fromisoformat(e.timestamp) THEN Failure("Timestamp must be in ISO format")
    ELSE CheckRanges(e)

\* ------------------------------------------------------------ the store

\* The backing file DATA_FILE: st = "absent" (no file), "ok" (a complete JSON
\* document {"entries": [...]}) or "partial" (a file whose text stops before the
\* document is complete: entries holds the entries already written to it).
\* An entry's values (str, int, float, None, NaN) come back from json.load as
\* json.dump wrote them, so a complete file is modelled by the list it encodes.
File(st, es) == [st |-> st, entries |-> es]

init_data_file_always(f) == File("ok", <<>>)

\* _init_data_file: writes {"entries": []} when the file does not exist.
init_data_file(f) == IF f.st = "absent" THEN File("ok", <<>>) ELSE f

\* load_data: [file after the call, what it returns]; json.load raises
\* JSONDecodeError on an incomplete document.
load_data(f) ==
    LET g == init_data_file(f)
    IN  IF g.st = "ok" THEN [file |-> g, ret |-> Ret(TRUE, FALSE, "", g.entries)]
        ELSE [file |-> g, ret |-> Raised("JSONDecodeError")]

\* save_data when nothing interrupts it: the file holds the whole document.
save_data(data) == File("ok", data)

HasDateNever(es, d) == FALSE

\* The duplicate check of add_entry: existing["date"] == entry["date"].
HasDate(es, d) == \E j \in 1..Len(es) : es[j].date = d

\* a >= b on the sort key x["date"], a str.
KeyGeq(a, b) == ~StrLess(a.date.s, b.date.s)

\* Where x goes in a list already in descending key order: behind every
\* element whose key is >= its own (the sort is stable).
InsertDesc(q, x) ==
    LET n == Cardinality({j \in 1..Len(q) : KeyGeq(q[j], x)})
    IN  SubSeq(q, 1, n) \o <<x>> \o SubSeq(q, n + 1, Len(q))

\* list.sort(key=lambda x: x["date"], reverse=True)
RECURSIVE SortDesc(_)
SortDesc(q) ==
    IF q = <<>> THEN <<>>
    ELSE InsertDesc(SortDesc(SubSeq(q, 1, Len(q) - 1)), q[Len(q)])

\* A store_entry that replaces the entry of the same date instead of rejecting.
store_entry_overwrite(f, e) ==
    LET l == load_data(f)
        keep == SelectSeq(l.ret.entries, LAMBDA x : x.date # e.date)
    IN  IF l.ret.raised THEN l
        ELSE [file |-> save_data(SortDesc(Append(keep, e))), ret |-> Success]

\* add_entry once the entry is valid: load, duplicate check, append, sort, save.
store_entry(f, e) ==
    LET l == load_data(f)
    IN  IF l.ret.raised THEN l
        ELSE IF HasDate(l.ret.entries, e.date)
          THEN [file |-> l.file, ret |-> Failure("Entry for {date} already exists")]
        ELSE [file |-> save_data(SortDesc(Append(l.ret.entries, e))), ret |-> Success]

\* An add_entry that stores without looking at the validation result.
add_entry_unchecked(f, e) ==
    IF e.date.k # "str" THEN [file |-> f, ret |-> Raised("TypeError")]
    ELSE store_entry(f, e)

add_entry(f, e) ==
    LET v == validate_entry(e)
    IN  IF v.raised THEN [file |-> f, ret |-> v]
        ELSE IF ~v.ok THEN [file |-> f, ret |-> Failure(v.err)]
        ELSE store_entry(f, e)

\* The days argument: given = FALSE is None.
Days(given, n) == [given |-> given, n |-> n]

\* entries[:n] for n > 0
Slice(es, n) == SubSeq(es, 1, IF n < Len(es) THEN n ELSE Len(es))

get_entries(f, days) ==
    LET l == load_data(f)
    IN  IF l.ret.raised THEN l
        ELSE IF days.given /\ days.n > 0
          THEN [file |-> l.file, ret |-> Ret(TRUE, FALSE, "", Slice(l.ret.entries, days.n))]
        ELSE l

\* get_entry_by_date: the first entry with that date, as a list of one; an empty
\* list and ok = FALSE are None.
get_entry_by_date(f, d) ==
    LET l == load_data(f)
        js == {j \in 1..Len(l.ret.entries) : l.ret.entries[j].date = d}
    IN  IF l.ret.raised THEN l
        ELSE IF js = {} THEN [file |-> l.file, ret |-> Ret(FALSE, FALSE, "", <<>>)]
        ELSE [file |-> l.file,
              ret |-> Ret(TRUE, FALSE, "",
                          <<l.ret.entries[CHOOSE j \in js : \A m \in js : j <= m]>>)]

\* ------------------------------------------------------------ analytics

metrics == <<"sleep_hours", "focus", "mood", "work_hours">>

\* The Python number types: statistics.mean and the comparisons x < 6 take these
\* and raise TypeError on a str or None.
IsNumber(v) == v.k \in {"int", "float", "nan"}

\* The value in tenths.
Tenths(v) == 10 * v.i + v.f

RECURSIVE SumSeq(_)
SumSeq(q) == IF q = <<>> THEN 0 ELSE Head(q) + SumSeq(Tail(q))

Column(entries, metric) == [j \in 1..Len(entries) |-> entries[j][metric]]

TenthsOf(entries, metric) == [j \in 1..Len(entries) |-> Tenths(entries[j][metric])]

\* A float result num/den, or NaN, or the exception raised.
AVal(raised, nan, num, den) == [raised |-> raised, nan |-> nan, num |-> num, den |-> den]

Zero == AVal(FALSE, FALSE, 0, 1)

ARaised == AVal(TRUE, FALSE, 0, 1)

HasNaN(entries, metric) == \E j \in 1..Len(entries) : entries[j][metric].k = "nan"

calculate_average(entries, metric) ==
    IF entries = <<>> THEN Zero
    ELSE IF \E j \in 1..Len(entries) : ~IsNumber(entries[j][metric]) THEN ARaised
    ELSE AVal(FALSE, HasNaN(entries, metric),
              SumSeq(TenthsOf(entries, metric)), 10 * Len(entries))

calculate_rolling_average(entries, metric, window) ==
    IF entries = <<>> THEN Zero
    ELSE calculate_average(Slice(entries, window), metric)

Abs(x) == IF x < 0 THEN -x ELSE x

RECURSIVE Gcd(_, _)
Gcd(a, b) == IF b = 0 THEN a ELSE Gcd(b, a % b)

RECURSIVE GcdSeq(_)
GcdSeq(q) == IF q = <<>> THEN 0 ELSE Gcd(Abs(Head(q)), GcdSeq(Tail(q)))

\* Deviations from the mean up to a positive factor common to the column (a
\* correlation does not change when a column is scaled): n * v - sum, divided
\* by the greatest common divisor of these.
Dev(entries, metric) ==
    LET t == TenthsOf(entries, metric)
        raw == [j \in 1..Len(entries) |-> Len(entries) * t[j] - SumSeq(t)]
        g == GcdSeq(raw)
    IN  IF g = 0 THEN raw ELSE [j \in 1..Len(entries) |-> raw[j] \div g]

\* The correlation is numerator / sqrt(sq1 * sq2): a float that is kept as the
\* three sums, each column scaled by its own factor; zero is the test denominator == 0
\* and value 0.0 the result of len(entries) < 2 and of that test.
Corr(raised, nan, zero, numerator, sq1, sq2) ==
    [raised |-> raised, nan |-> nan, zero |-> zero,
     numerator |-> numerator, sq1 |-> sq1, sq2 |-> sq2]

QuotientUnguarded(numerator, sq1, sq2) ==
    IF sq1 = 0 \/ sq2 = 0 THEN Corr(TRUE, FALSE, FALSE, 0, sq1, sq2)
    ELSE Corr(FALSE, FALSE, FALSE, numerator, sq1, sq2)

\* if denominator == 0: return 0.0, else numerator / denominator.
Quotient(numerator, sq1, sq2) ==
    IF sq1 = 0 \/ sq2 = 0 THEN Corr(FALSE, FALSE, TRUE, 0, sq1, sq2)
    ELSE Corr(FALSE, FALSE, FALSE, numerator, sq1, sq2)

calculate_correlation(entries, metric1, metric2) ==
    IF Len(entries) < 2 THEN Corr(FALSE, FALSE, TRUE, 0, 0, 0)
    ELSE IF \E j \in 1..Len(entries) :
              ~FloatOk(entries[j][metric1]) \/ ~FloatOk(entries[j][metric2])
      THEN Corr(TRUE, FALSE, FALSE, 0, 0, 0)
    ELSE IF HasNaN(entries, metric1) \/ HasNaN(entries, metric2)
      THEN Corr(FALSE, TRUE, FALSE, 0, 0, 0)
    ELSE
      LET d1 == Dev(entries, metric1)
          d2 == Dev(entries, metric2)
          numerator == SumSeq([j \in 1..Len(entries) |-> d1[j] * d2[j]])
          sq1 == SumSeq([j \in 1..Len(entries) |-> d1[j] * d1[j]])
          sq2 == SumSeq([j \in 1..Len(entries) |-> d2[j] * d2[j]])
      IN  Quotient(numerator, sq1, sq2)

CountLessEq(entries, metric, n) ==
    Cardinality({j \in 1..Len(entries) : ~NumGreater(entries[j][metric], n)})

\* sum(1 for e in entries if e[metric] < 6) and its like; NaN compares False.
CountLess(entries, metric, n) ==
    Cardinality({j \in 1..Len(entries) : NumLess(entries[j][metric], n)})

CountGreater(entries, metric, n) ==
    Cardinality({j \in 1..Len(entries) : NumGreater(entries[j][metric], n)})

\* f"{pct:.1f}" of pct = (count / len(entries)) * 100: the nearest tenth of a
\* percent, a tie going to the even digit, counted in tenths.
Pct(count, total) ==
    LET q == (1000 * count) \div total
        r == (1000 * count) % total
    IN  IF 2 * r < total THEN q
        ELSE IF 2 * r > total THEN q + 1
        ELSE IF q % 2 = 0 THEN q ELSE q + 1

Flag(name, count, total) ==
    [name |-> name, count |-> count, total |-> total, pct |-> Pct(count, total)]

FlagIf(name, count, total) == IF count > 0 THEN <<Flag(name, count, total)>> ELSE <<>>

\* identify_flags: the list of warnings, or the TypeError of comparing a str
\* with a number.
identify_flags(entries) ==
    IF entries = <<>> THEN [raised |-> FALSE, flags |-> <<>>]
    ELSE IF \E j \in 1..Len(entries), k \in 1..Len(metrics) :
              ~IsNumber(entries[j][metrics[k]])
      THEN [raised |-> TRUE, flags |-> <<>>]
    ELSE [raised |-> FALSE,
          flags |-> FlagIf("Low sleep (<6h)", CountLess(entries, "sleep_hours", 6), Len(entries))
                 \o FlagIf("Low focus (<4)", CountLess(entries, "focus", 4), Len(entries))
                 \o FlagIf("Low mood (<4)", CountLess(entries, "mood", 4), Len(entries))
                 \o FlagIf("Long work days (>10h)", CountGreater(entries, "work_hours", 10),
                           Len(entries))]

\* for i, m1 in enumerate(metrics): for m2 in metrics[i+1:]
MetricPairs ==
    <<<<1, 2>>, <<1, 3>>, <<1, 4>>, <<2, 3>>, <<2, 4>>, <<3, 4>>>>

\* Natural numbers beyond the integers at hand, for comparing correlations
\* exactly: a sequence of digits in base 1000, least significant first.
RECURSIVE BigOf(_)
BigOf(k) == IF k = 0 THEN <<>> ELSE <<k % 1000>> \o BigOf(k \div 1000)

RECURSIVE MulSmall(_, _, _)
MulSmall(b, k, carry) ==
    IF b = <<>> THEN BigOf(carry)
    ELSE LET v == Head(b) * k + carry
         IN  <<v % 1000>> \o MulSmall(Tail(b), k, v \div 1000)

RECURSIVE BigAdd(_, _, _)
BigAdd(a, b, carry) ==
    IF a = <<>> /\ b = <<>> THEN BigOf(carry)
    ELSE LET x == IF a = <<>> THEN 0 ELSE Head(a)
             y == IF b = <<>> THEN 0 ELSE Head(b)
             v == x + y + carry
         IN  <<v % 1000>> \o BigAdd(IF a = <<>> THEN a ELSE Tail(a),
                                    IF b = <<>> THEN b ELSE Tail(b), v \div 1000)

BigMul(b, k) ==
    BigAdd(MulSmall(b, k % 1000000, 0), <<0, 0>> \o MulSmall(b, k \div 1000000, 0), 0)

RECURSIVE Strip(_)
Strip(b) == IF b # <<>> /\ b[Len(b)] = 0 THEN Strip(SubSeq(b, 1, Len(b) - 1)) ELSE b

RECURSIVE DigitsLess(_, _)
DigitsLess(a, b) ==
    IF a = <<>> THEN FALSE
    ELSE IF a[Len(a)] # b[Len(b)] THEN a[Len(a)] < b[Len(b)]
    ELSE DigitsLess(SubSeq(a, 1, Len(a) - 1), SubSeq(b, 1, Len(b) - 1))

BigLess(a, b) ==
    LET x == Strip(a)
        y == Strip(b)
    IN  IF Len(x) # Len(y) THEN Len(x) < Len(y) ELSE DigitsLess(x, y)

\* abs(a) < abs(b) for two correlations: n1^2 / (p1 q1) < n2^2 / (p2 q2),
\* a result 0.0 being smaller than any other and NaN never smaller or greater.
AbsLess(a, b) ==
    IF a.nan \/ b.nan THEN FALSE
    ELSE IF b.zero THEN FALSE
    ELSE IF a.zero THEN b.numerator # 0
    ELSE BigLess(
           BigMul(BigMul(BigMul(BigOf(Abs(a.numerator)), Abs(a.numerator)), b.sq1), b.sq2),
           BigMul(BigMul(BigMul(BigOf(Abs(b.numerator)), Abs(b.numerator)), a.sq1), a.sq2))

InsertByAbsFront(q, x) ==
    LET n == Cardinality({j \in 1..Len(q) : AbsLess(x.corr, q[j].corr)})
    IN  SubSeq(q, 1, n) \o <<x>> \o SubSeq(q, n + 1, Len(q))

\* Behind every element that is not smaller: descending and stable.
InsertByAbs(q, x) ==
    LET n == Cardinality({j \in 1..Len(q) : ~AbsLess(q[j].corr, x.corr)})
    IN  SubSeq(q, 1, n) \o <<x>> \o SubSeq(q, n + 1, Len(q))

RECURSIVE SortByAbs(_)
SortByAbs(q) ==
    IF q = <<>> THEN <<>>
    ELSE InsertByAbs(SortByAbs(SubSeq(q, 1, Len(q) - 1)), q[Len(q)])

get_top_correlations(entries) ==
    IF Len(entries) < 2 THEN [raised |-> FALSE, pairs |-> <<>>]
    ELSE
      LET all == [k \in 1..Len(MetricPairs) |->
                    [m1 |-> metrics[MetricPairs[k][1]], m2 |-> metrics[MetricPairs[k][2]],
                     corr |-> calculate_correlation(entries, metrics[MetricPairs[k][1]],
                                                    metrics[MetricPairs[k][2]])]]
      IN  IF \E k \in 1..Len(all) : all[k].corr.raised
            THEN [raised |-> TRUE, pairs |-> <<>>]
          ELSE [raised |-> FALSE, pairs |-> SortByAbs(all)]

RollingWindow == 7

\* for m1, m2, corr in correlations[:3]
TopShown == 3

RollingSectionAlways(entries) == <<"7-DAY ROLLING AVERAGES:">>

\* if actual_days >= 7: the rolling averages.
RollingSection(entries) ==
    IF Len(entries) >= RollingWindow THEN <<"7-DAY ROLLING AVERAGES:">> ELSE <<>>

\* generate_summary: the sections of the report in order (the social breakdown
\* is part of the averages) and the correlations shown, or the exception of
\* the first call that raises.
generate_summary(entries, days) ==
    LET avgs == [k \in 1..Len(metrics) |-> calculate_average(entries, metrics[k])]
        top == get_top_correlations(entries)
        flags == identify_flags(entries)
    IN  IF entries = <<>>
          THEN [raised |-> FALSE, sections |-> <<"No data available.">>, shown |-> <<>>]
        ELSE IF \/ \E k \in 1..Len(metrics) : avgs[k].raised
                \/ top.raised
                \/ flags.raised
          THEN [raised |-> TRUE, sections |-> <<>>, shown |-> <<>>]
        ELSE [raised |-> FALSE,
              sections |-> <<"header", "AVERAGES:">>
                 \o RollingSection(entries)
                 \o (IF top.pairs # <<>> THEN <<"TOP CORRELATIONS:">> ELSE <<>>)
                 \o (IF flags.flags # <<>> THEN <<"FLAGS:">> ELSE <<>>),
              shown |-> Slice(top.pairs, TopShown)]

\* ------------------------------------------------------------ inputs

AllFields == Range(required_fields)

Y2024 == <<"2", "0", "2", "4", "-">>

D_2024_01_05 == Y2024 \o <<"0", "1", "-", "0", "5">>

D_2024_01_10 == Y2024 \o <<"0", "1", "-", "1", "0">>

D_2024_1_5 == Y2024 \o <<"1", "-", "5">>

D_2023_12_31 == <<"2", "0", "2", "3", "-", "1", "2", "-", "3", "1">>

D_2024_02_30 == Y2024 \o <<"0", "2", "-", "3", "0">>

D_05_01_2024 == <<"0", "5", "/", "0", "1", "/", "2", "0", "2", "4">>

GoodDates == {D_2024_01_05, D_2024_01_10, D_2024_1_5, D_2023_12_31}

NullDate == [k |-> "null", s |-> <<>>]

TsGood == Txt("2024-01-05T08:30:00")

TsBad == Txt("yesterday")

TsNull == [k |-> "null", text |-> ""]

\* An entry as cmd_add builds it: float hours, int scores.
Typical(d) ==
    Entry(AllFields, Str(d), Num("float", 7, 5), Num("int", 7, 0), Num("int", 6, 0),
          Num("float", 8, 0), "deep", TsGood)

\* Candidate entries handed to add_entry: per date, the typical entry, one whose
\* sleep_hours is the str "7.5" and one whose focus is the float 10.5; and one
\* entry per way of failing validation.
StoreInputs ==
    {Typical(d) : d \in GoodDates}
    \cup {[Typical(d) EXCEPT !.sleep_hours = Num("decstr", 7, 5)] : d \in GoodDates}
    \cup {[Typical(d) EXCEPT !.focus = Num("float", 10, 5), !.social = "none"] : d \in GoodDates}
    \cup {[Typical(D_2024_01_05) EXCEPT !.present = AllFields \ {"mood"}],
          Typical(D_2024_02_30),
          [Typical(D_2024_01_10) EXCEPT !.timestamp = TsBad],
          [Typical(D_2024_01_10) EXCEPT !.sleep_hours = Num("float", 24, 1)],
          [Typical(D_2023_12_31) EXCEPT !.focus = Num("int", 0, 0)],
          [Typical(D_2024_1_5) EXCEPT !.social = "party"],
          [Typical(D_2024_01_05) EXCEPT !.date = NullDate]}

DaysInputs == {Days(FALSE, 0)} \cup {Days(TRUE, n) : n \in -1..3}

\* Candidate entries handed to validate_entry alone.
ValPresent == {AllFields, AllFields \ {"mood"}, AllFields \ {"date", "focus"}}

ValDates == {Str(D_2024_01_05), Str(D_2024_1_5), Str(D_05_01_2024), NullDate}

ValStamps == {TsGood, TsBad, TsNull}

ValHours ==
    {Num("float", 7, 5), Num("float", 24, 1), Num("nan", 0, 0), Num("decstr", 7, 5),
     Num("badstr", 0, 0)}

ValScores ==
    {Num("int", 7, 0), Num("int", 0, 0), Num("float", 10, 5), Num("float", 5, 7),
     Num("decstr", 7, 5)}

ValMood == {Num("int", 6, 0), Num("int", 11, 0), Num("float", 10, 9)}

ValWork == {Num("float", 8, 0), Num("float", -1, 5)}

ValSocial == {"deep", "party"}

ValInputs ==
    {Entry(pr, d, sl, fo, mo, wo, so, ts) :
        pr \in ValPresent, d \in ValDates, sl \in ValHours, fo \in ValScores,
        mo \in ValMood, wo \in ValWork, so \in ValSocial, ts \in ValStamps}

\* ------------------------------------------------------------ state machine

MaxEntries == 3

NoCall == [op |-> "none", e |-> Typical(D_2024_01_05), days |-> Days(FALSE, 0)]

Call(op, e, days) == [op |-> op, e |-> e, days |-> days]

NoRet == Ret(FALSE, FALSE, "pending", <<>>)

\* What save_data is writing (new), and what the file held when it was opened
\* (old, kept to state what a crash may leave behind).
Buf(old, new) == [old |-> old, new |-> new]

NoBuf == Buf(<<>>, <<>>)

\* The store before its first use: no ~/.pale-signal/data.json.
Init ==
    /\ file = File("absent", <<>>)
    /\ call = NoCall
    /\ ret = NoRet
    /\ pc = "idle"
    /\ buf = NoBuf

AddEntry ==
    /\ pc = "idle"
    /\ Len(file.entries) < MaxEntries
    /\ \E e \in StoreInputs :
         /\ call' = Call("add_entry", e, NoCall.days)
         /\ LET r == add_entry(file, e) IN file' = r.file /\ ret' = r.ret
    /\ UNCHANGED <<pc, buf>>

GetEntries ==
    /\ pc = "idle"
    /\ \E days \in DaysInputs :
         /\ call' = Call("get_entries", NoCall.e, days)
         /\ LET r == get_entries(file, days) IN file' = r.file /\ ret' = r.ret
    /\ UNCHANGED <<pc, buf>>

GetEntryByDate ==
    /\ pc = "idle"
    /\ \E d \in GoodDates :
         /\ call' = Call("get_entry_by_date", Typical(d), NoCall.days)
         /\ LET r == get_entry_by_date(file, Str(d)) IN file' = r.file /\ ret' = r.ret
    /\ UNCHANGED <<pc, buf>>

LoadData ==
    /\ pc = "idle"
    /\ call' = Call("load_data", NoCall.e, NoCall.days)
    /\ LET r == load_data(file) IN file' = r.file /\ ret' = r.ret
    /\ UNCHANGED <<pc, buf>>

AnalyticsFns ==
    {"calculate_average", "calculate_rolling_average", "calculate_correlation",
     "identify_flags", "get_top_correlations", "generate_summary"}

Analytics(fn, entries, m1, m2, days) ==
    CASE fn = "calculate_average" -> calculate_average(entries, m1)
      [] fn = "calculate_rolling_average" ->
           calculate_rolling_average(entries, m1, RollingWindow)
      [] fn = "calculate_correlation" -> calculate_correlation(entries, m1, m2)
      [] fn = "identify_flags" -> identify_flags(entries)
      [] fn = "get_top_correlations" -> get_top_correlations(entries)
      [] OTHER -> generate_summary(entries, days)

\* The arguments each function is tried with.
AnalyticsArgs ==
    {<<fn, m, m>> : fn \in {"calculate_average", "calculate_rolling_average"},
                    m \in Range(metrics)}
    \cup {<<"calculate_correlation", metrics[MetricPairs[k][1]], metrics[MetricPairs[k][2]]>> :
            k \in 1..Len(MetricPairs)}
    \cup {<<"calculate_correlation", "sleep_hours", "sleep_hours">>}
    \cup {<<fn, "sleep_hours", "sleep_hours">> :
            fn \in {"identify_flags", "get_top_correlations", "generate_summary"}}

\* cmd_summary and cmd_plot: the entries get_entries returns go to an
\* analytics function.
Analyze ==
    /\ pc = "idle"
    /\ \E days \in {Days(FALSE, 0), Days(TRUE, 2)}, a \in AnalyticsArgs :
         LET g == get_entries(file, days)
         IN  /\ call' = [op |-> a[1], e |-> NoCall.e, days |-> days, m1 |-> a[2], m2 |-> a[3]]
             /\ file' = g.file
             /\ ret' = Analytics(a[1], g.ret.entries, a[2], a[3], days)
    /\ UNCHANGED <<pc, buf>>

Next == AddEntry \/ GetEntries \/ GetEntryByDate \/ LoadData

Spec == Init /\ [][Next]_vars

\* The store filled by add_entry and read by the analytics functions.
NextAnalytics == AddEntry \/ Analyze

SpecAnalytics == Init /\ [][NextAnalytics]_vars

\* validate_entry on its own: the candidate is drawn at the start, then checked.
InitValidate ==
    /\ file = File("absent", <<>>)
    /\ \E e \in ValInputs : call = Call("none", e, NoCall.days)
    /\ ret = NoRet
    /\ pc = "idle"
    /\ buf = NoBuf

Validate ==
    /\ call.op = "none"
    /\ call' = [call EXCEPT !.op = "validate_entry"]
    /\ ret' = validate_entry(call.e)
    /\ UNCHANGED <<file, pc, buf>>

NextValidate == Validate

SpecValidate == InitValidate /\ [][NextValidate]_vars

\* ------------------------------------------------------------ save_data, step by step

\* add_entry up to the open(DATA_FILE, 'w') of save_data: a rejected entry
\* returns as before; otherwise the file is truncated and the sorted list is
\* about to be written.
BeginAdd ==
    /\ pc = "idle"
    /\ Len(file.entries) < MaxEntries
    /\ \E e \in StoreInputs :
         LET r == add_entry(file, e)
         IN  /\ call' = Call("add_entry", e, NoCall.days)
             /\ IF r.ret.ok
                  THEN /\ file' = File("partial", <<>>)
                       /\ buf' = Buf(load_data(file).ret.entries, r.file.entries)
                       /\ pc' = "writing"
                       /\ ret' = NoRet
                  ELSE /\ file' = r.file
                       /\ ret' = r.ret
                       /\ UNCHANGED <<pc, buf>>

\* json.dump hands the document to the file piece by piece.
WriteChunk ==
    /\ pc = "writing"
    /\ Len(file.entries) < Len(buf.new)
    /\ file' = File("partial", SubSeq(buf.new, 1, Len(file.entries) + 1))
    /\ UNCHANGED <<call, ret, pc, buf>>

\* The with block ends: the document is complete, add_entry returns.
CloseFile ==
    /\ pc = "writing"
    /\ Len(file.entries) = Len(buf.new)
    /\ file' = save_data(buf.new)
    /\ ret' = Success
    /\ pc' = "idle"
    /\ UNCHANGED <<call, buf>>

\* The process dies between open() and the end of the with block.
Crash ==
    /\ pc = "writing"
    /\ pc' = "crashed"
    /\ UNCHANGED <<file, call, ret, buf>>

\* The tool is run again.
Restart ==
    /\ pc = "crashed"
    /\ pc' = "idle"
    /\ UNCHANGED <<file, call, ret, buf>>

NextCrash == BeginAdd \/ WriteChunk \/ CloseFile \/ Crash \/ Restart \/ LoadData

SpecCrash == Init /\ [][NextCrash]_vars

\* ------------------------------------------- analytics on given entries

\* An entry of the data model with the given measurements: hours as floats
\* counted in tenths, scores as ints.
Measured(sl, fo, mo, wo) ==
    [Typical(D_2024_01_05) EXCEPT !.sleep_hours = Num("float", sl \div 10, sl % 10),
                                  !.focus = Num("int", fo, 0),
                                  !.mood = Num("int", mo, 0),
                                  !.work_hours = Num("float", wo \div 10, wo % 10)]

SeqsUpTo(S, n) == UNION {[1..k -> S] : k \in 0..n}

\* The entries argument of an analytics function, not yet applied.
Given(entries) ==
    [op |-> "none", entries |-> entries, m1 |-> "sleep_hours", m2 |-> "sleep_hours",
     days |-> Days(FALSE, 0)]

InitGiven(inputs) ==
    /\ file = File("absent", <<>>)
    /\ \E es \in inputs : call = Given(es)
    /\ ret = NoRet
    /\ pc = "idle"
    /\ buf = NoBuf

\* Entries on the thresholds of identify_flags, clear of them, and past each
\* one alone or all four.
OnThresholds == Measured(60, 4, 4, 100)

FlagProfiles ==
    {OnThresholds, Measured(80, 8, 8, 80), Measured(59, 4, 4, 100), Measured(60, 3, 4, 100),
     Measured(60, 4, 3, 100), Measured(60, 4, 4, 101), Measured(59, 3, 3, 101)}

MaxFlagList == 4

FlagInputs == SeqsUpTo(FlagProfiles, MaxFlagList)

InitFlags == InitGiven(FlagInputs)

IdentifyFlags ==
    /\ call.op = "none"
    /\ call' = [call EXCEPT !.op = "identify_flags"]
    /\ ret' = identify_flags(call.entries)
    /\ UNCHANGED <<file, pc, buf>>

NextFlags == IdentifyFlags

SpecFlags == InitFlags /\ [][NextFlags]_vars

\* Entries for the correlations: focus and mood mirror each other over the
\* first three, so that pairs tie in absolute value; repeats of one entry
\* give metrics without variance.
CorrProfiles ==
    {Measured(70, 5, 5, 80), Measured(80, 6, 4, 80), Measured(60, 7, 6, 90),
     Measured(65, 3, 7, 105), Measured(75, 9, 2, 120)}

MaxCorrList == 3

CorrInputs == SeqsUpTo(CorrProfiles, MaxCorrList)

InitCorr == InitGiven(CorrInputs)

Correlate ==
    /\ call.op = "none"
    /\ \E a, b \in Range(metrics) :
         /\ call' = [call EXCEPT !.op = "calculate_correlation", !.m1 = a, !.m2 = b]
         /\ ret' = calculate_correlation(call.entries, a, b)
    /\ UNCHANGED <<file, pc, buf>>

TopCorrelations ==
    /\ call.op = "none"
    /\ call' = [call EXCEPT !.op = "get_top_correlations"]
    /\ ret' = get_top_correlations(call.entries)
    /\ UNCHANGED <<file, pc, buf>>

NextCorr == Correlate \/ TopCorrelations

SpecCorr == InitCorr /\ [][NextCorr]_vars

\* Entries for the summary: one past every threshold of identify_flags, two
\* within them.
SummaryProfiles == {Measured(59, 3, 3, 101), Measured(70, 5, 6, 80), Measured(80, 7, 5, 90)}

MaxSummaryList == 7

SummaryInputs == SeqsUpTo(SummaryProfiles, MaxSummaryList)

InitSummary == InitGiven(SummaryInputs)

\* cmd_summary with its default of 7 days.
GenerateSummary ==
    /\ call.op = "none"
    /\ call' = [call EXCEPT !.op = "generate_summary", !.days = Days(TRUE, 7)]
    /\ ret' = generate_summary(call.entries, Days(TRUE, 7))
    /\ UNCHANGED <<file, pc, buf>>

NextSummary == GenerateSummary

SpecSummary == InitSummary /\ [][NextSummary]_vars

\* ------------------------------------------------------------ cmd_add

\* datetime.now().strftime("%Y-%m-%d"): always zero padded.
CliDates == {D_2023_12_31, D_2024_01_05, D_2024_01_10}

\* What is typed at "Sleep hours (0-24): ".
CliSleep == {Num("decstr", 6, 5), Num("decstr", 7, 5), Num("decstr", 25, 0), Num("badstr", 0, 0)}

\* float(sleep) of typed text that FloatOk accepts.
FloatOf(v) == Num("float", v.i, v.f)

\* The entry cmd_add builds from today and the typed answers.
Collected(today, sleep) == [Typical(today) EXCEPT !.sleep_hours = FloatOf(sleep)]

CmdCall(e, existing) ==
    [op |-> "cmd_add", e |-> e, days |-> NoCall.days, existing |-> existing]

\* cmd_add up to the validation: look today's entry up, ask before
\* overwriting, collect the answers, validate. Nothing is written yet, save
\* for the file load_data creates.
CmdAdd ==
    /\ pc = "idle"
    /\ \E today \in CliDates, overwrite \in {"y", "n"}, sleep \in CliSleep :
         LET g == get_entry_by_date(file, Str(today))
             existing == g.ret.ok
             e == Collected(today, sleep)
             v == validate_entry(e)
         IN  /\ call' = CmdCall(e, existing)
             /\ file' = g.file
             /\ buf' = Buf(g.file.entries, <<>>)
             /\ IF existing /\ overwrite # "y"
                  THEN ret' = Failure("Cancelled.") /\ pc' = "idle"
                ELSE IF ~FloatOk(sleep)
                  THEN ret' = Failure("Invalid input or cancelled.") /\ pc' = "idle"
                ELSE IF ~v.ok
                  THEN ret' = Failure(v.err) /\ pc' = "idle"
                ELSE ret' = NoRet /\ pc' = (IF existing THEN "remove" ELSE "insert")

\* if existing: load_data, drop today's entry, save_data.
RemoveStored ==
    /\ pc = "remove"
    /\ LET l == load_data(file)
       IN  file' = save_data(SelectSeq(l.ret.entries, LAMBDA x : x.date # call.e.date))
    /\ pc' = "insert"
    /\ UNCHANGED <<call, ret, buf>>

\* data_store.add_entry(entry), and cmd_add returns.
AddCollected ==
    /\ pc = "insert"
    /\ LET r == add_entry(file, call.e) IN file' = r.file /\ ret' = r.ret
    /\ pc' = "idle"
    /\ UNCHANGED <<call, buf>>

\* Ctrl-C or a kill between two statements of cmd_add: nothing catches it
\* after the try block, the process ends.
Interrupt ==
    /\ pc \in {"remove", "insert"}
    /\ call' = [call EXCEPT !.op = "interrupted"]
    /\ ret' = Raised("KeyboardInterrupt")
    /\ pc' = "idle"
    /\ UNCHANGED <<file, buf>>

NextOverwrite == CmdAdd \/ RemoveStored \/ AddCollected \/ Interrupt

SpecOverwrite == Init /\ [][NextOverwrite]_vars

\* ------------------------------------------------------------ properties

Persisted == file.entries

DuplicateMsg == "Entry for {date} already exists"

\* C1: however add_entry is called, no two persisted entries have the same
\* `date` value.
C1_UniqueDates ==
    \A i, j \in 1..Len(Persisted) : i # j => Persisted[i].date # Persisted[j].date

\* A duplicate was offered to a store of two entries and was rejected.
C1_Witness ==
    /\ call.op = "add_entry"
    /\ ret.err = DuplicateMsg
    /\ Len(Persisted) >= 2

\* C2: add_entry of a valid entry whose date is already persisted fails with
\* the duplicate-date error, whatever its other fields, and leaves the file as
\* it was.
C2_DuplicateRejected ==
    [][(/\ call'.op = "add_entry"
        /\ validate_entry(call'.e).ok
        /\ \E j \in 1..Len(file.entries) : file.entries[j].date = call'.e.date)
       => (ret' = Failure(DuplicateMsg) /\ file' = file)]_vars

\* A valid entry was rejected as a duplicate of a persisted entry that differs
\* from it in another field.
C2_Witness ==
    /\ call.op = "add_entry"
    /\ ret.err = DuplicateMsg
    /\ \E j \in 1..Len(Persisted) :
         Persisted[j].date = call.e.date /\ Persisted[j] # call.e

AllPersistedValid == \A j \in 1..Len(Persisted) : validate_entry(Persisted[j]).ok

\* C3: an entry on which validate_entry returns failure is not written:
\* add_entry returns that failure and the file is unchanged; and every
\* persisted entry passes validate_entry.
C3_InvalidNeverWritten ==
    [][/\ (call'.op = "add_entry" /\ ~validate_entry(call'.e).ok
             /\ ~validate_entry(call'.e).raised)
          => (ret' = Failure(validate_entry(call'.e).err) /\ file' = file)
       /\ AllPersistedValid']_vars

\* An invalid entry was refused by a store that holds entries.
C3_Witness ==
    /\ call.op = "add_entry"
    /\ ~validate_entry(call.e).ok
    /\ ~ret.ok
    /\ ret.err = "sleep_hours must be between 0 and 24"
    /\ Len(Persisted) >= 1

\* C4: the persisted list is ordered by calendar date, most recent day first.
C4_SortedByCalendarDate ==
    \A i, j \in 1..Len(Persisted) :
        i < j => DayNumber(Persisted[i].date.s) >= DayNumber(Persisted[j].date.s)

\* C5: a crash during save_data leaves the complete previous collection or the
\* complete new one in the file.
C5_AtomicSave ==
    pc = "crashed" => (file.st = "ok" /\ file.entries \in {buf.old, buf.new})

Newest(es) == \A j \in 1..Len(Persisted) :
                  DayNumber(es[1].date.s) >= DayNumber(Persisted[j].date.s)

\* C8: get_entries returns the first min(limit, n) persisted entries for a
\* positive limit and all of them otherwise, and for limit >= 1 on a non-empty
\* store the first returned entry has the most recent date of the store.
C8_GetEntries ==
    call.op = "get_entries" =>
      /\ ~ret.raised
      /\ ret.entries =
           IF call.days.given /\ call.days.n > 0
             THEN SubSeq(Persisted, 1, IF call.days.n < Len(Persisted)
                                         THEN call.days.n ELSE Len(Persisted))
             ELSE Persisted
      /\ (call.days.given /\ call.days.n >= 1 /\ Persisted # <<>>) => Newest(ret.entries)

ReadOps == {"load_data", "get_entries", "get_entry_by_date"}

\* C9: load_data on a missing file creates it with an empty collection and
\* returns that; on an existing file it, get_entries and get_entry_by_date
\* leave the file as it is, do not fail, and load_data returns its collection.
C9_LoadPreserves ==
    [][/\ call'.op \in ReadOps =>
            /\ ~ret'.raised
            /\ file.st = "absent" => file' = File("ok", <<>>)
            /\ file.st = "ok" => file' = file
       /\ call'.op = "load_data" =>
            /\ ret'.entries = file'.entries
            /\ file.st = "absent" => ret'.entries = <<>>]_vars

\* load_data returned the two entries of an existing file.
C9_Witness ==
    /\ call.op = "load_data"
    /\ Len(Persisted) >= 2
    /\ ret.entries = Persisted

\* C10: on the entries the store accepted and persisted, none of the six
\* analytics functions raises.
C10_AnalyticsTotal == call.op \in AnalyticsFns => ~ret.raised

\* The domains of the data model, stated on the values themselves.

\* Text of the shape dddd-dd-dd that names a day of the calendar.
IsYMD(d) ==
    /\ d.k = "str"
    /\ Len(d.s) = 10
    /\ IsDigits(SubSeq(d.s, 1, 4)) /\ d.s[5] = "-"
    /\ IsDigits(SubSeq(d.s, 6, 7)) /\ d.s[8] = "-"
    /\ IsDigits(SubSeq(d.s, 9, 10))
    /\ Val2(d.s[6], d.s[7]) \in 1..12
    /\ Val2(d.s[9], d.s[10]) \in
         1..DaysInMonth(1000 * DigitVal(d.s[1]) + 100 * DigitVal(d.s[2])
                          + Val2(d.s[3], d.s[4]), Val2(d.s[6], d.s[7]))

IsIso(t) == t.k = "str" /\ t.text \in IsoTexts

\* The value is, or is the text of, a real number (NaN is none).
DenotesReal(v) == v.k \in {"int", "float", "intstr", "decstr"}

DenotesInteger(v) == DenotesReal(v) /\ v.f = 0

Within(v, lo, hi) == 10 * lo <= Tenths(v) /\ Tenths(v) <= 10 * hi

HoursOk(v) == DenotesReal(v) /\ Within(v, 0, 24)

ScoreOk(v) == DenotesInteger(v) /\ Within(v, 1, 10)

SocialOk(so) == so \in {"none", "online", "casual", "meaningful", "deep"}

Missing(e) == AllFields \ e.present

\* The failures of an entry, in the priority order of the claim, each with the
\* message that names it.
FirstFailure(e) ==
    IF Missing(e) # {} THEN {MissingMsg(fld) : fld \in Missing(e)}
    ELSE IF ~IsYMD(e.date) THEN {"Date must be in YYYY-MM-DD format"}
    ELSE IF ~IsIso(e.timestamp) THEN {"Timestamp must be in ISO format"}
    ELSE IF ~Within(e.sleep_hours, 0, 24) THEN {"sleep_hours must be between 0 and 24"}
    ELSE IF ~Within(e.focus, 1, 10) THEN {"focus must be between 1 and 10"}
    ELSE IF ~Within(e.mood, 1, 10) THEN {"mood must be between 1 and 10"}
    ELSE IF ~Within(e.work_hours, 0, 24) THEN {"work_hours must be between 0 and 24"}
    ELSE IF ~SocialOk(e.social)
      THEN {"social must be one of: none, online, casual, meaningful, deep"}
    ELSE {}

\* Entries whose values have the types of the data model (str date and
\* timestamp, int or float numbers) and whose date, if it parses, is zero padded.
PlainTyped(e) ==
    /\ e.date.k = "str" /\ (strptime(e.date.s).ok => IsYMD(e.date))
    /\ e.timestamp.k = "str"
    /\ \A k \in 1..Len(metrics) : e[metrics[k]].k \in {"int", "float"}

\* C6: for an entry with one or more of the eight failures, validate_entry
\* returns the message of the failure that comes first in the priority order.
C6_FirstFailureReported ==
    (call.op = "validate_entry" /\ PlainTyped(call.e) /\ FirstFailure(call.e) # {})
      => (~ret.ok /\ ~ret.raised /\ ret.err \in FirstFailure(call.e))

\* C7: validate_entry succeeds exactly for the entries with all seven fields,
\* a YYYY-MM-DD date, an ISO timestamp, sleep_hours and work_hours real numbers
\* in [0, 24], focus and mood integers in [1, 10] and a social category.
C7_ValidIffInDomain ==
    call.op = "validate_entry" =>
      (ret.ok <=> /\ Missing(call.e) = {}
                  /\ IsYMD(call.e.date)
                  /\ IsIso(call.e.timestamp)
                  /\ HoursOk(call.e.sleep_hours) /\ HoursOk(call.e.work_hours)
                  /\ ScoreOk(call.e.focus) /\ ScoreOk(call.e.mood)
                  /\ SocialOk(call.e.social))


\* ---- identify_flags

FlagNames == <<"Low sleep (<6h)", "Low focus (<4)", "Low mood (<4)", "Long work days (>10h)">>

\* The k-th condition of the data model's warnings, on the measured values.
Meets(e, k) ==
    CASE k = 1 -> Tenths(e.sleep_hours) < 60
      [] k = 2 -> Tenths(e.focus) < 40
      [] k = 3 -> Tenths(e.mood) < 40
      [] OTHER -> Tenths(e.work_hours) > 100

Hits(entries, k) == {j \in 1..Len(entries) : Meets(entries[j], k)}

FlagIndex(name) == CHOOSE k \in 1..Len(FlagNames) : FlagNames[k] = name

\* C11: identify_flags emits one warning for each of the four conditions
\* sleep_hours < 6, focus < 4, mood < 4, work_hours > 10 exactly when some given
\* entry meets it; the warning carries the count of such entries, the total and
\* count/total*100 to the nearest tenth; the warnings come in the order sleep,
\* focus, mood, work; nothing is returned for no entries or when no condition
\* is met, the values 6, 4, 4 and 10 themselves meeting none.
C11_FlagsPerCondition ==
    call.op = "identify_flags" =>
        /\ ~ret.raised
        /\ LET es == call.entries
               fl == ret.flags
           IN  /\ \A i \in 1..Len(fl) : fl[i].name \in Range(FlagNames)
               /\ \A i, j \in 1..Len(fl) :
                     i < j => FlagIndex(fl[i].name) < FlagIndex(fl[j].name)
               /\ \A k \in 1..Len(FlagNames) :
                     (Hits(es, k) # {}) <=> (\E i \in 1..Len(fl) : fl[i].name = FlagNames[k])
               /\ \A i \in 1..Len(fl) :
                     LET c == Cardinality(Hits(es, FlagIndex(fl[i].name)))
                         d == fl[i].pct * Len(es) - 1000 * c
                     IN  /\ fl[i].count = c
                         /\ fl[i].total = Len(es)
                         /\ 2 * d <= Len(es)
                         /\ -2 * d <= Len(es)

\* One day in four is flagged, 25.0%, beside a day that sits on every threshold.
C11_Witness ==
    /\ call.op = "identify_flags"
    /\ Len(ret.flags) \in 1..3
    /\ \E i \in 1..Len(ret.flags) :
         ret.flags[i].count = 1 /\ ret.flags[i].total = 4 /\ ret.flags[i].pct = 250
    /\ \E j \in 1..Len(call.entries) : call.entries[j] = OnThresholds


\* ---- correlations

\* The place of a pair in the enumeration sleep/focus, sleep/mood, sleep/work,
\* focus/mood, focus/work, mood/work; 0 for anything else.
PairIndex(p) ==
    LET ks == {k \in 1..Len(MetricPairs) :
                 /\ metrics[MetricPairs[k][1]] = p.m1
                 /\ metrics[MetricPairs[k][2]] = p.m2}
    IN  IF ks = {} THEN 0 ELSE CHOOSE k \in ks : TRUE

SameAbs(a, b) == ~AbsLess(a, b) /\ ~AbsLess(b, a)

\* C12: get_top_correlations returns nothing for fewer than 2 entries and
\* otherwise the 6 pairs of the four metrics, each once and never more, in
\* non-increasing order of the absolute correlation, pairs of equal absolute
\* correlation in the order of their enumeration.
C12_TopCorrelations ==
    call.op = "get_top_correlations" =>
        /\ ~ret.raised
        /\ Len(call.entries) < 2 => ret.pairs = <<>>
        /\ Len(call.entries) >= 2 =>
             /\ Len(ret.pairs) = 6
             /\ {PairIndex(ret.pairs[i]) : i \in 1..Len(ret.pairs)} = 1..6
             /\ \A i, j \in 1..Len(ret.pairs) :
                  i < j =>
                    /\ ~AbsLess(ret.pairs[i].corr, ret.pairs[j].corr)
                    /\ SameAbs(ret.pairs[i].corr, ret.pairs[j].corr)
                         => PairIndex(ret.pairs[i]) < PairIndex(ret.pairs[j])

\* The order differs from the enumeration, and two neighbours tie.
C12_Witness ==
    /\ call.op = "get_top_correlations"
    /\ Len(ret.pairs) = 6
    /\ PairIndex(ret.pairs[1]) # 1
    /\ \E i \in 1..5 :
         /\ SameAbs(ret.pairs[i].corr, ret.pairs[i + 1].corr)
         /\ ret.pairs[i].corr.numerator # 0
    /\ AbsLess(ret.pairs[6].corr, ret.pairs[1].corr)

\* The result is the float 0.0.
IsZeroCorr(c) == ~c.raised /\ ~c.nan /\ c.numerator = 0

Constant(entries, metric) ==
    \A i, j \in 1..Len(entries) : Tenths(entries[i][metric]) = Tenths(entries[j][metric])

Sign(c) == IF c.numerator > 0 THEN 1 ELSE IF c.numerator < 0 THEN -1 ELSE 0

SameValue(a, b) ==
    /\ a.raised = b.raised
    /\ ~a.nan /\ ~b.nan
    /\ Sign(a) = Sign(b)
    /\ SameAbs(a, b)

\* C13: calculate_correlation returns 0.0 for fewer than 2 entries and when
\* either metric has no variance, the correlation of a constant metric with
\* itself included, without an error; and it returns the same value for
\* (a, b) and for (b, a).
C13_CorrelationZeroAndSymmetric ==
    call.op = "calculate_correlation" =>
        /\ ~ret.raised
        /\ Len(call.entries) < 2 => IsZeroCorr(ret)
        /\ Constant(call.entries, call.m1) \/ Constant(call.entries, call.m2)
             => IsZeroCorr(ret)
        /\ SameValue(ret, calculate_correlation(call.entries, call.m2, call.m1))

\* A constant metric against itself over two entries or more.
C13_Witness ==
    /\ call.op = "calculate_correlation"
    /\ Len(call.entries) >= 2
    /\ call.m1 = call.m2
    /\ Constant(call.entries, call.m1)
    /\ IsZeroCorr(ret)


\* ---- generate_summary

\* C14: generate_summary returns only the placeholder for no entries;
\* otherwise the header and the averages always, the 7-day rolling averages
\* exactly when there are at least 7 entries, the top correlations (at most 3
\* lines) exactly when there are at least 2 entries, the flags exactly when
\* identify_flags returns some, in this order.
C14_SummarySections ==
    call.op = "generate_summary" =>
        /\ ~ret.raised
        /\ LET n == Len(call.entries)
           IN  /\ ret.sections =
                    IF n = 0 THEN <<"No data available.">>
                    ELSE <<"header", "AVERAGES:">>
                         \o (IF n >= 7 THEN <<"7-DAY ROLLING AVERAGES:">> ELSE <<>>)
                         \o (IF n >= 2 THEN <<"TOP CORRELATIONS:">> ELSE <<>>)
                         \o (IF identify_flags(call.entries).flags # <<>>
                               THEN <<"FLAGS:">> ELSE <<>>)
               /\ Len(ret.shown) <= 3
               /\ n < 2 => ret.shown = <<>>

\* Seven entries: all five sections, three correlations shown.
C14_Witness ==
    /\ call.op = "generate_summary"
    /\ Len(call.entries) = 7
    /\ Len(ret.sections) = 5
    /\ Len(ret.shown) = 3


\* ---- cmd_add

OfDate(es, d) == SelectSeq(es, LAMBDA x : x.date = d)

Others(es, d) == SelectSeq(es, LAMBDA x : x.date # d)

NewestFirst(es) ==
    \A i, j \in 1..Len(es) : i < j => DayNumber(es[i].date.s) >= DayNumber(es[j].date.s)

\* add_entry returns in a run of cmd_add that found an entry for today.
OverwriteCompleted == pc = "insert" /\ pc' = "idle" /\ call'.op = "cmd_add" /\ call.existing

\* cmd_add found an entry for today and returned before removing it: the
\* answer was not y, or the answers did not validate.
OverwriteAbandoned == pc = "idle" /\ pc' = "idle" /\ call'.op = "cmd_add" /\ call'.existing

OverwriteReplaces ==
    OverwriteCompleted =>
        /\ OfDate(file'.entries, call.e.date) = <<call.e>>
        /\ Others(file'.entries, call.e.date) = Others(buf.old, call.e.date)
        /\ NewestFirst(file'.entries)

AbandonedUntouched == OverwriteAbandoned => file' = file

\* Today's entry, the stored one or its replacement, is in the store.
TodayKept ==
    (call.op \in {"cmd_add", "interrupted"} /\ call.existing) =>
        HasDate(file.entries, call.e.date)

\* C15: the overwrite flow of cmd_add loses nothing. When it completes, the
\* store holds exactly one entry for today, the new one, every other entry as
\* before, newest first; when the answer is not y or the new entry does not
\* validate, the file is as it was; and at every point an interruption could
\* expose, the store holds an entry for today.
C15_OverwriteLosesNothing ==
    [][OverwriteReplaces /\ AbandonedUntouched /\ TodayKept']_vars

====
